---- MODULE Spec2Model ----
(***************************************************************************)
(* Fleet Tracker frontend (src/App/static/app.js): the WebSocket           *)
(* connection manager (connectWS and its four handlers) and the marker     *)
(* registry (upsertMarker and the message handler).                        *)
(*                                                                         *)
(* Numbers.  Delays are milliseconds, as in the source.  speed_kph and     *)
(* heading_deg are JavaScript numbers; the model carries them as integers  *)
(* in hundredths (4225 is 42.25), and NotANumber stands for any JSON value *)
(* that is not a number.  lat and lng are points of a small integer grid.  *)
(*                                                                         *)
(* Objects.  Leaflet markers and WebSocket instances are objects with      *)
(* identity: a marker is a handle into heap, a connection instance an      *)
(* index into socks.  Objects nothing refers to any more are dropped, and  *)
(* a new object takes the smallest number no live object has.              *)
(***************************************************************************)
EXTENDS Integers, Sequences, FiniteSets, TLC

VARIABLES
    loaded,          \* the load event has run initMap (map is set)
    mapLayers,       \* the markers added to map (marker.addTo / remove)
    markers,         \* let markers = {}: id -> marker handle
    heap,            \* marker handle -> the marker object's state
    bounds,          \* let bounds = L.latLngBounds()
    assetCount,      \* textContent of #asset-count
    ws,              \* let ws: the instance last created, 0 while undefined
    reconnectDelay,  \* let reconnectDelay = 1000
    socks,           \* connection instance -> its state
    timers,          \* pending setTimeout(connectWS, d): the delays d
    statusEl,        \* textContent of #ws-status
    evt,             \* the event whose handler ran last, with its input
    calls,           \* the display calls that handler made, in order
    streak           \* delays scheduled by the closes since the last onopen

vars == <<loaded, mapLayers, markers, heap, bounds, assetCount, ws, reconnectDelay,
          socks, timers, statusEl, evt, calls, streak>>

registryVars == <<mapLayers, markers, heap, bounds, assetCount>>
connVars == <<ws, reconnectDelay, socks, timers, statusEl>>

----------------------------------------------------------------------------
\* Bounds of the model.

\* longest snapshot the feed sends
MaxSnap == 2
\* how many delays of one run of closes the history streak keeps
MaxStreak == 6
\* how many instances may be alive or due (a pending timer) at once when
\* connectWS is also called from outside
MaxLive == 2

----------------------------------------------------------------------------
\* Program constants.

\* let reconnectDelay = 1000; and the reset in onopen
FloorDelay == 1000
\* Math.min(reconnectDelay * 2, 10000)
CeilDelay == 10000

Min(a, b) == IF a < b THEN a ELSE b
Max(a, b) == IF a > b THEN a ELSE b

----------------------------------------------------------------------------
\* The feed's values.

Ids == {"1", "2"}
NotANumber == 0 - 1

\* The fields of a record other than its id, as the backend sends them.
Variants ==
    { [name |-> "Truck A", lat |-> 0, lng |-> 0, heading_deg |-> 9000,
       speed_kph |-> 4225, status |-> "moving"],
      [name |-> "Truck B", lat |-> 1, lng |-> 1, heading_deg |-> 17950,
       speed_kph |-> 0, status |-> "stopped"] }

MkAsset(i, v) ==
    [id |-> i, name |-> v.name, lat |-> v.lat, lng |-> v.lng,
     heading_deg |-> v.heading_deg, speed_kph |-> v.speed_kph, status |-> v.status]

\* the Asset records of the data model: every field of its declared type
Assets == { MkAsset(i, v) : i \in Ids, v \in Variants }

SeqsUpTo(S, n) == UNION { [1..k -> S] : k \in 0..n }

\* A decoded message: snapshot carries data, asset_update carries one record
\* (kept as a one-element data), any other type carries nothing the code reads.
Messages ==
    { [type |-> "snapshot", data |-> d] : d \in SeqsUpTo(Assets, MaxSnap) }
    \cup { [type |-> "asset_update", data |-> <<a>>] : a \in Assets }
    \cup { [type |-> "ping", data |-> <<>>] }

\* evt.data as it arrives: text that is JSON for a message, or text that is not JSON
NoMessage == [type |-> "", data |-> <<>>]
Payloads ==
    { [json |-> TRUE, value |-> m] : m \in Messages }
    \cup { [json |-> FALSE, value |-> NoMessage] }

----------------------------------------------------------------------------
\* Leaflet: L.latLngBounds(), extend, isValid.

\* L.latLngBounds() with no corners: not valid until a point is folded in
EmptyBounds == [valid |-> FALSE, south |-> 0, west |-> 0, north |-> 0, east |-> 0]

\* bounds.extend([lat, lng])
extend(b, lat, lng) ==
    IF b.valid
    THEN [valid |-> TRUE,
          south |-> Min(b.south, lat), west |-> Min(b.west, lng),
          north |-> Max(b.north, lat), east |-> Max(b.east, lng)]
    ELSE [valid |-> TRUE, south |-> lat, west |-> lng, north |-> lat, east |-> lng]

----------------------------------------------------------------------------
\* Number.prototype.toFixed on a number carried in hundredths.

IsNumber(x) == x >= 0

\* x.toFixed(1): the nearest tenth (in tenths), the larger of two equally near ones
toFixed1(x) == (x + 5) \div 10
\* x.toFixed(0): the nearest whole number
toFixed0(x) == (x + 50) \div 100

\* speed_kph.toFixed(1) and heading_deg.toFixed(0) are method calls: they raise
\* a TypeError when the value is no number
CanFormat(asset) == IsNumber(asset.speed_kph) /\ IsNumber(asset.heading_deg)

\* The popup text `<b>name</b><br/>Speed: s kph<br/>Heading: h deg<br/>Status: st`,
\* kept as the four values it is built from.
Popup(asset) ==
    [name |-> asset.name, speed |-> toFixed1(asset.speed_kph),
     heading |-> toFixed0(asset.heading_deg), status |-> asset.status]

----------------------------------------------------------------------------
\* The registry, as the value a handler transforms:
\*   markers, heap, layers (of map), bounds, count (#asset-count),
\*   calls (display calls made so far), threw (an exception is propagating).

EmptyMap == [i \in {} |-> 0]

Range(f) == { f[x] : x \in DOMAIN f }

\* the ids of S in the order Object.values(markers) visits them: integer-like
\* keys come in ascending numeric order
IdOrder == <<"1", "2">>
SortedIds(S) == SelectSeq(IdOrder, LAMBDA x : x \in S)

\* a marker object nothing refers to any more is gone
Collect(R) ==
    LET live == Range(R.markers) \cup R.layers IN
    [R EXCEPT !.heap = [h \in live \cap DOMAIN R.heap |-> R.heap[h]]]

\* L.marker(...): a new object, with a handle no live marker has
NewHandle(R) ==
    CHOOSE h \in 1..(Cardinality(DOMAIN R.heap) + 1) :
        /\ h \notin DOMAIN R.heap
        /\ \A g \in 1..(h - 1) : g \in DOMAIN R.heap

Call(R, op, h) == [R EXCEPT !.calls = Append(@, [op |-> op, arg |-> h])]

\* the marker of an existing entry: setLatLng, then bindPopup
updateMarker(R, asset) ==
    LET h  == R.markers[asset.id]
        R1 == Call([R EXCEPT !.heap[h].lat = asset.lat, !.heap[h].lng = asset.lng],
                   "setLatLng", h)
    IN  IF ~CanFormat(asset)
        THEN [R1 EXCEPT !.threw = TRUE]
        ELSE Call([R1 EXCEPT !.heap[h].popup = Popup(asset)], "bindPopup", h)

\* a new entry: L.marker(pos, {title: name}), bindPopup, addTo(map), markers[id] = marker
createMarker(R, asset) ==
    IF ~CanFormat(asset)
    THEN [R EXCEPT !.threw = TRUE]
    ELSE LET h == NewHandle(R)
             m == [lat |-> asset.lat, lng |-> asset.lng, title |-> asset.name,
                   popup |-> Popup(asset)]
         IN  Call([R EXCEPT !.heap = [g \in DOMAIN R.heap \cup {h} |->
                                         IF g = h THEN m ELSE R.heap[g]],
                            !.layers = @ \cup {h},
                            !.markers = [i \in DOMAIN R.markers \cup {asset.id} |->
                                            IF i = asset.id THEN h ELSE R.markers[i]]],
                  "addTo", h)

\* upsertMarker with bounds.extend(pos) in the branch that creates only
upsertExtendsOnCreate(R, asset) ==
    IF asset.id \in DOMAIN R.markers
    THEN updateMarker(R, asset)
    ELSE LET R1 == createMarker(R, asset) IN
         IF R1.threw THEN R1
         ELSE [R1 EXCEPT !.bounds = extend(@, asset.lat, asset.lng)]

\* upsertMarker without the markers[id] lookup: a new marker every time
upsertAlwaysCreates(R, asset) ==
    LET R1 == createMarker(R, asset) IN
    IF R1.threw THEN R1
    ELSE [R1 EXCEPT !.bounds = extend(@, asset.lat, asset.lng)]

\* upsertMarker that also rewrites #asset-count with the size of the registry
upsertWritesCount(R, asset) ==
    LET R1 == IF asset.id \in DOMAIN R.markers
              THEN updateMarker(R, asset)
              ELSE createMarker(R, asset)
    IN  IF R1.threw THEN R1
        ELSE [R1 EXCEPT !.bounds = extend(@, asset.lat, asset.lng),
                        !.count = Cardinality(DOMAIN R1.markers)]

\* function upsertMarker(asset)
upsertMarker(R, asset) ==
    LET R1 == IF asset.id \in DOMAIN R.markers
              THEN updateMarker(R, asset)
              ELSE createMarker(R, asset)
    IN  IF R1.threw THEN R1
        ELSE [R1 EXCEPT !.bounds = extend(@, asset.lat, asset.lng)]

\* msg.data.forEach(upsertMarker): in order, until one call throws
RECURSIVE forEachUpsert(_, _)
forEachUpsert(R, data) ==
    IF data = <<>> \/ R.threw THEN R
    ELSE forEachUpsert(upsertMarker(R, Head(data)), Tail(data))

\* the reset without the m.remove() loop
removeNone(R, ids) == R

\* Object.values(markers).forEach(m => m.remove())
RECURSIVE removeAll(_, _)
removeAll(R, ids) ==
    IF ids = <<>> THEN R
    ELSE LET h == R.markers[Head(ids)] IN
         removeAll(Call([R EXCEPT !.layers = @ \ {h}], "remove", h), Tail(ids))

\* the reset without markers = {}: the old entries stay in the registry
resetRegistryKeepEntries(R) ==
    removeAll([R EXCEPT !.bounds = EmptyBounds], SortedIds(DOMAIN R.markers))

\* the reset without bounds = L.latLngBounds()
resetRegistryKeepBounds(R) ==
    LET R1 == removeAll(R, SortedIds(DOMAIN R.markers))
    IN  Collect([R1 EXCEPT !.markers = EmptyMap])

\* the reset of the snapshot branch: bounds = L.latLngBounds(); remove every
\* marker from the map; markers = {}
resetRegistry(R) ==
    LET R1 == removeAll([R EXCEPT !.bounds = EmptyBounds], SortedIds(DOMAIN R.markers))
    IN  Collect([R1 EXCEPT !.markers = EmptyMap])

\* the snapshot branch of onmessage
applySnapshot(R, data) ==
    LET R1 == forEachUpsert(resetRegistry(R), data) IN
    IF R1.threw THEN R1
    ELSE Call([R1 EXCEPT !.count = Len(data)], "setCount", Len(data))

\* dispatch with the snapshot branch taken for every type but asset_update
dispatchElseSnapshot(R, payload) ==
    IF ~payload.json THEN [R EXCEPT !.threw = TRUE]
    ELSE LET msg == payload.value IN
         IF msg.type = "asset_update" THEN upsertMarker(R, msg.data[1])
         ELSE applySnapshot(R, msg.data)

\* dispatch with text that is not JSON taken for an empty snapshot
dispatchBadTextEmpties(R, payload) ==
    IF ~payload.json THEN applySnapshot(R, <<>>)
    ELSE LET msg == payload.value IN
         IF msg.type = "snapshot" THEN applySnapshot(R, msg.data)
         ELSE IF msg.type = "asset_update" THEN upsertMarker(R, msg.data[1])
         ELSE R

\* JSON.parse(evt.data), then the two branches; any other type falls through
dispatch(R, payload) ==
    IF ~payload.json THEN [R EXCEPT !.threw = TRUE]
    ELSE LET msg == payload.value IN
         IF msg.type = "snapshot" THEN applySnapshot(R, msg.data)
         ELSE IF msg.type = "asset_update" THEN upsertMarker(R, msg.data[1])
         ELSE R

----------------------------------------------------------------------------
\* The connection manager, as the value a handler transforms:
\*   socks, ws, delay (reconnectDelay), timers, status (#ws-status), streak.
\* A connection instance: rs is its readyState; the other fields are history:
\*   opened (onopen ran), atCeil (reconnectDelay was at the ceiling when it
\*   was created),
\*   retries (how often its onclose ran), sched (the delay its onclose gave the
\*   timer, 0 before), dropped (a message of it failed to decode).

NewSockState(d) ==
    [rs |-> "CONNECTING", opened |-> FALSE, atCeil |-> (d = CeilDelay), retries |-> 0, sched |-> 0,
     dropped |-> FALSE]

Alive(C) == { i \in DOMAIN C.socks : C.socks[i].rs # "CLOSED" }

\* new WebSocket(url): an instance no instance still referred to has
NewSock(C) ==
    CHOOSE i \in 1..(Cardinality(DOMAIN C.socks) + 1) :
        /\ i \notin DOMAIN C.socks
        /\ \A j \in 1..(i - 1) : j \in DOMAIN C.socks

\* a closed instance that ws no longer names is gone
CollectSocks(C) ==
    LET keep == Alive(C) \cup ({C.ws} \cap DOMAIN C.socks) IN
    [C EXCEPT !.socks = [i \in keep |-> C.socks[i]]]

\* connectWS that connects the instance ws names again once one exists
connectWSReuses(C) ==
    IF C.ws \in DOMAIN C.socks
    THEN [C EXCEPT !.socks[C.ws] = NewSockState(C.delay)]
    ELSE LET i == NewSock(C) IN
         [C EXCEPT !.socks = [j \in DOMAIN C.socks \cup {i} |->
                                 IF j = i THEN NewSockState(C.delay) ELSE C.socks[j]],
                   !.ws = i]

\* function connectWS(): ws = new WebSocket(url), whatever ws was
connectWS(C) ==
    LET i == NewSock(C) IN
    CollectSocks([C EXCEPT !.socks = [j \in DOMAIN C.socks \cup {i} |->
                                         IF j = i THEN NewSockState(C.delay)
                                         ELSE C.socks[j]],
                           !.ws = i])

\* onopen without the reset of the backoff
onopenNoReset(C, i) ==
    [C EXCEPT !.status = "Connected", !.socks[i].opened = TRUE, !.streak = <<>>]

\* ws.onopen
onopen(C, i) ==
    [C EXCEPT !.status = "Connected", !.delay = FloorDelay,
              !.socks[i].opened = TRUE, !.streak = <<>>]

\* Math.min(reconnectDelay * 2, 10000)
nextDelay(d) == Min(d * 2, CeilDelay)

\* onclose that stops retrying once the delay has reached the ceiling
oncloseGivesUp(C, i) ==
    [C EXCEPT !.status = "Reconnecting",
              !.timers = IF C.delay < CeilDelay THEN Append(@, C.delay) ELSE @,
              !.delay = nextDelay(C.delay),
              !.socks[i].retries = @ + 1,
              !.socks[i].sched = C.delay,
              !.streak = IF Len(@) < MaxStreak THEN Append(@, C.delay) ELSE @]

\* onclose with the two statements in the other order: doubles, then schedules
oncloseDoubleFirst(C, i) ==
    [C EXCEPT !.status = "Reconnecting",
              !.timers = Append(@, nextDelay(C.delay)),
              !.delay = nextDelay(C.delay),
              !.socks[i].retries = @ + 1,
              !.socks[i].sched = nextDelay(C.delay),
              !.streak = IF Len(@) < MaxStreak THEN Append(@, nextDelay(C.delay)) ELSE @]

\* ws.onclose: setTimeout(connectWS, reconnectDelay), then the doubling
onclose(C, i) ==
    [C EXCEPT !.status = "Reconnecting",
              !.timers = Append(@, C.delay),
              !.delay = nextDelay(C.delay),
              !.socks[i].retries = @ + 1,
              !.socks[i].sched = C.delay,
              !.streak = IF Len(@) < MaxStreak THEN Append(@, C.delay) ELSE @]

\* WebSocket.close(): starts the closing handshake unless already closing or closed
closeSock(C, i) ==
    IF C.socks[i].rs \in {"CONNECTING", "OPEN"}
    THEN [C EXCEPT !.socks[i].rs = "CLOSING"]
    ELSE C

\* onerror that closes and also schedules the reconnect itself
onerrorAlsoRetries(C, i) ==
    LET C1 == closeSock(C, C.ws) IN
    [C1 EXCEPT !.timers = Append(@, C1.delay), !.delay = nextDelay(C1.delay)]

\* ws.onerror: ws.close() on the instance the variable ws names
onerror(C, i) == closeSock(C, C.ws)

----------------------------------------------------------------------------
\* State.

\* #asset-count before any snapshot: the text the page came with
NoCount == 0 - 1
NoPayload == [json |-> FALSE, value |-> NoMessage]
Event(kind, i, p) == [kind |-> kind, inst |-> i, payload |-> p]

Init ==
    /\ loaded = FALSE
    /\ mapLayers = {}
    /\ markers = EmptyMap
    /\ heap = EmptyMap
    /\ bounds = EmptyBounds
    /\ assetCount = NoCount
    /\ ws = 0
    /\ reconnectDelay = FloorDelay
    /\ socks = EmptyMap
    /\ timers = <<>>
    /\ statusEl = "initial"
    /\ evt = Event("script", 0, NoPayload)
    /\ calls = <<>>
    /\ streak = <<>>

Conn == [socks |-> socks, ws |-> ws, delay |-> reconnectDelay, timers |-> timers,
         status |-> statusEl, streak |-> streak]

Reg == [markers |-> markers, heap |-> heap, layers |-> mapLayers, bounds |-> bounds,
        count |-> assetCount, calls |-> <<>>, threw |-> FALSE]

SetConn(C) ==
    /\ socks' = C.socks
    /\ ws' = C.ws
    /\ reconnectDelay' = C.delay
    /\ timers' = C.timers
    /\ statusEl' = C.status
    /\ streak' = C.streak

SetReg(R) ==
    /\ markers' = R.markers
    /\ heap' = R.heap
    /\ mapLayers' = R.layers
    /\ bounds' = R.bounds
    /\ assetCount' = R.count
    /\ calls' = R.calls

SetClosed(C, i) == [C EXCEPT !.socks[i].rs = "CLOSED"]

RemoveAt(s, k) == SubSeq(s, 1, k - 1) \o SubSeq(s, k + 1, Len(s))

----------------------------------------------------------------------------
\* Actions: one per event the page handles.

\* window load: initMap sets map and the click handlers, then calls connectWS()
InitMap ==
    /\ ~loaded
    /\ loaded' = TRUE
    /\ SetConn(connectWS(Conn))
    /\ evt' = Event("load", 0, NoPayload)
    /\ calls' = <<>>
    /\ UNCHANGED <<registryVars>>

\* the open event of instance i
OpenEvent(i) ==
    /\ socks[i].rs = "CONNECTING"
    /\ SetConn(onopen([Conn EXCEPT !.socks[i].rs = "OPEN"], i))
    /\ evt' = Event("open", i, NoPayload)
    /\ calls' = <<>>
    /\ UNCHANGED <<loaded, registryVars>>

\* a message event of instance i; an exception leaves onmessage and the page goes on
MessageEvent(i, payload) ==
    /\ socks[i].rs = "OPEN"
    /\ LET R == dispatch(Reg, payload) IN
       /\ SetReg(R)
       /\ socks' = IF payload.json THEN socks ELSE [socks EXCEPT ![i].dropped = TRUE]
    /\ evt' = Event("message", i, payload)
    /\ UNCHANGED <<loaded, ws, reconnectDelay, timers, statusEl, streak>>

\* an error event of instance i while it is not yet closed
ErrorEvent(i) ==
    /\ socks[i].rs # "CLOSED"
    /\ SetConn(onerror(Conn, i))
    /\ evt' = Event("error", i, NoPayload)
    /\ calls' = <<>>
    /\ UNCHANGED <<loaded, registryVars>>

\* a close event whose handler also empties the registry
CloseEventClears(i) ==
    /\ socks[i].rs # "CLOSED"
    /\ SetConn(CollectSocks(onclose(SetClosed(Conn, i), i)))
    /\ evt' = Event("close", i, NoPayload)
    /\ SetReg(resetRegistry(Reg))
    /\ UNCHANGED loaded

\* the close event of instance i: fired once, when the connection is closed
CloseEvent(i) ==
    /\ socks[i].rs # "CLOSED"
    /\ SetConn(CollectSocks(onclose(SetClosed(Conn, i), i)))
    /\ evt' = Event("close", i, NoPayload)
    /\ calls' = <<>>
    /\ UNCHANGED <<loaded, registryVars>>

\* the connection of instance i fails: the instance is closed, then its error
\* event and its close event are fired one after the other
FailEvent(i) ==
    /\ socks[i].rs # "CLOSED"
    /\ SetConn(CollectSocks(onclose(onerror(SetClosed(Conn, i), i), i)))
    /\ evt' = Event("fail", i, NoPayload)
    /\ calls' = <<>>
    /\ UNCHANGED <<loaded, registryVars>>

\* the k-th pending timer expires and calls connectWS
TimerExpiry(k) ==
    /\ SetConn(connectWS([Conn EXCEPT !.timers = RemoveAt(@, k)]))
    /\ evt' = Event("timer", 0, NoPayload)
    /\ calls' = <<>>
    /\ UNCHANGED <<loaded, registryVars>>

\* connectWS() called by something other than initMap and the timer
CallConnectWS ==
    /\ loaded
    /\ Cardinality(Alive(Conn)) + Len(timers) < MaxLive
    /\ SetConn(connectWS(Conn))
    /\ evt' = Event("call", 0, NoPayload)
    /\ calls' = <<>>
    /\ UNCHANGED <<loaded, registryVars>>

\* the connection events of an instance
SockEvent ==
    \E i \in DOMAIN socks :
        \/ OpenEvent(i)
        \/ ErrorEvent(i)
        \/ CloseEvent(i)
        \/ FailEvent(i)

\* the feed delivers a message on an open instance
Message == \E i \in DOMAIN socks : \E p \in Payloads : MessageEvent(i, p)

Timer == \E k \in 1..Len(timers) : TimerExpiry(k)

\* the page as it runs: connectWS is called by initMap and by the timer only
Next == InitMap \/ SockEvent \/ Message \/ Timer

Spec == Init /\ [][Next]_vars

\* the connection manager with connectWS also called from outside, on a feed
\* that is silent (no handler of the connection reads what a message changes)
NextCalled == InitMap \/ SockEvent \/ Timer \/ CallConnectWS

SpecCalled == Init /\ [][NextCalled]_vars

----------------------------------------------------------------------------
\* The page's buttons.

\* bounds.pad(0.2): each side moved outwards by 0.2 of the extent in its
\* direction; the result is in tenths of a grid unit
pad(b) ==
    LET h == 2 * (b.north - b.south)
        w == 2 * (b.east - b.west)
    IN  [south |-> 10 * b.south - h, west |-> 10 * b.west - w,
         north |-> 10 * b.north + h, east |-> 10 * b.east + w]

\* the click handler without the isValid() test
zoomFitUnchecked(R) == Call(R, "fitBounds", pad(R.bounds))

\* the click handler of #btn-zoom-fit: if (bounds.isValid()) map.fitBounds(bounds.pad(0.2))
zoomFit(R) ==
    IF R.bounds.valid THEN Call(R, "fitBounds", pad(R.bounds)) ELSE R

\* a click on #btn-zoom-fit
ZoomFitClick ==
    /\ loaded
    /\ SetReg(zoomFit(Reg))
    /\ evt' = Event("zoomfit", 0, NoPayload)
    /\ UNCHANGED <<loaded, connVars, streak>>

\* a click on #btn-snapshot: await fetch('/api/assets'), whose result is not read
SnapshotClick ==
    /\ loaded
    /\ evt' = Event("fetch", 0, NoPayload)
    /\ calls' = <<>>
    /\ UNCHANGED <<loaded, registryVars, connVars, streak>>

\* the page with its two buttons
NextPage == Next \/ ZoomFitClick \/ SnapshotClick

SpecPage == Init /\ [][NextPage]_vars

----------------------------------------------------------------------------
\* A feed that also sends records the data model does not allow.

\* a record whose speed_kph is no number
BadVariants ==
    { [name |-> "Truck B", lat |-> 1, lng |-> 1, heading_deg |-> 17950,
       speed_kph |-> NotANumber, status |-> "stopped"] }

AnyAssets == Assets \cup { MkAsset(i, v) : i \in Ids, v \in BadVariants }

AnyMessages ==
    { [type |-> "snapshot", data |-> d] : d \in SeqsUpTo(AnyAssets, MaxSnap) }
    \cup { [type |-> "asset_update", data |-> <<a>>] : a \in AnyAssets }

AnyPayloads == { [json |-> TRUE, value |-> m] : m \in AnyMessages }

\* the feed delivers a message whose records may be ill-typed
MessageAny == \E i \in DOMAIN socks : \E p \in AnyPayloads : MessageEvent(i, p)

NextAnyFeed == InitMap \/ SockEvent \/ MessageAny \/ Timer

SpecAnyFeed == Init /\ [][NextAnyFeed]_vars

----------------------------------------------------------------------------
\* What the last event was.

IsMessage == evt.kind = "message" /\ evt.payload.json
IsSnapshot == IsMessage /\ evt.payload.value.type = "snapshot"
IsUpdate == IsMessage /\ evt.payload.value.type = "asset_update"
IsUnknownType == IsMessage /\ evt.payload.value.type \notin {"snapshot", "asset_update"}
IsUndecodable == evt.kind = "message" /\ ~evt.payload.json

SnapshotIds == { evt.payload.value.data[k].id : k \in 1..Len(evt.payload.value.data) }
CallsOf(op) == { k \in 1..Len(calls) : calls[k].op = op }

----------------------------------------------------------------------------
\* C1: from the floor delay and with no open in between, the k-th consecutive
\* close schedules its timer with 1000, 2000, 4000, 8000, 10000, 10000 ms for
\* k = 1..6 (and 10000 ms from then on): the current delay is used first and
\* doubled, clamped at 10000, afterwards.
SixDelays == <<1000, 2000, 4000, 8000, 10000, 10000>>

ExpectedDelay(k) == IF k <= Len(SixDelays) THEN SixDelays[k] ELSE CeilDelay

C1_BackoffSequence ==
    /\ \A k \in 1..Len(streak) : streak[k] = ExpectedDelay(k)
    /\ Len(streak) < MaxStreak => reconnectDelay = ExpectedDelay(Len(streak) + 1)

C1_Witness == streak = SixDelays /\ timers = <<CeilDelay>>

\* C2: once an instance has been open, its close schedules the reconnect timer
\* with the floor delay 1000 ms, however high the delay had climbed before.
C2_OpenResetsBackoff ==
    \A i \in DOMAIN socks :
        (socks[i].rs = "CLOSED" /\ socks[i].opened)
            => /\ socks[i].sched = FloorDelay
               /\ timers = <<FloorDelay>>
               /\ streak = <<FloorDelay>>

C2_Witness ==
    \E i \in DOMAIN socks :
        /\ socks[i].rs = "CLOSED" /\ socks[i].opened /\ socks[i].atCeil
        /\ socks[i].sched = FloorDelay

\* C3: after a snapshot is processed the ids of the registry are exactly the ids
\* the snapshot carries.
C3_SnapshotReplaces == IsSnapshot => DOMAIN markers = SnapshotIds

\* a snapshot for one id arrived while the registry held two entries
C3_Witness ==
    /\ IsSnapshot
    /\ Cardinality(CallsOf("remove")) = 2
    /\ Cardinality(SnapshotIds) = 1
    /\ DOMAIN markers = SnapshotIds

\* C4: after a sequence of asset_updates for one id the registry entry of that
\* id holds the fields of the last of them (position, name, formatted speed and
\* heading, status), whatever the earlier ones said.  Stated for the runs in
\* which no snapshot has arrived, where every entry was made by an asset_update.
MarkerOf(asset) ==
    [lat |-> asset.lat, lng |-> asset.lng, title |-> asset.name, popup |-> Popup(asset)]

C4_LastWriteWins ==
    (IsUpdate /\ assetCount = NoCount) =>
        LET a == evt.payload.value.data[1] IN
        /\ a.id \in DOMAIN markers
        /\ heap[markers[a.id]] = MarkerOf(a)

\* C5: a message of any other type makes no display call and changes neither
\* the registry, the bounds, the shown count nor the connection.
C5_UnknownTypeIgnored ==
    [][IsUnknownType' => (calls' = <<>> /\ UNCHANGED <<registryVars, connVars>>)]_vars

C5_Witness == IsUnknownType /\ DOMAIN markers = Ids /\ calls = <<>>

\* C6: the markers on the map are exactly the markers of the registry, one
\* marker per id, after any sequence of snapshots and asset_updates.
C6_RegistryIsDisplay ==
    /\ mapLayers = Range(markers)
    /\ DOMAIN heap = mapLayers
    /\ \A i, j \in DOMAIN markers : markers[i] = markers[j] => i = j

\* a snapshot that repeated an id has been processed
C6_Witness ==
    /\ IsSnapshot
    /\ Len(evt.payload.value.data) = 2
    /\ Cardinality(SnapshotIds) = 1
    /\ Cardinality(mapLayers) = 1
    /\ mapLayers = Range(markers)

\* C7: a connectWS() that runs while an instance is connecting or open creates
\* no instance and leaves ws as it is.
C7_ConnectIdempotent ==
    [][(evt'.kind \in {"load", "timer", "call"} /\ Alive(Conn) # {})
          => UNCHANGED <<socks, ws>>]_vars

\* C8: every instance runs the retry path once: its close, with or without an
\* error before it, schedules one timer with the current delay and doubles the
\* delay once (clamped); its error event alone schedules nothing and leaves the
\* instance closing or closed.
C8_RetryOncePerInstance ==
    /\ [](\A i \in DOMAIN socks :
             socks[i].retries = IF socks[i].rs = "CLOSED" THEN 1 ELSE 0)
    /\ [][/\ evt'.kind \in {"close", "fail"} =>
               /\ timers' = Append(timers, reconnectDelay)
               /\ reconnectDelay' = Min(2 * reconnectDelay, CeilDelay)
               /\ socks'[evt'.inst].rs = "CLOSED"
          /\ evt'.kind = "error" =>
               /\ timers' = timers
               /\ reconnectDelay' = reconnectDelay
               /\ socks'[evt'.inst].rs = "CLOSING"
          /\ evt'.kind \notin {"close", "fail"} => Len(timers') <= Len(timers)]_vars

\* a connection failed at the ceiling: its error and close handlers both ran
C8_Witness ==
    /\ evt.kind = "fail"
    /\ socks[evt.inst].rs = "CLOSED"
    /\ socks[evt.inst].retries = 1
    /\ socks[evt.inst].sched = CeilDelay
    /\ timers = <<CeilDelay>>

\* C9: a payload that is not JSON is dropped: nothing but the history changes,
\* the instance stays open, and the snapshots that follow on that instance are
\* applied in full.
C9_UndecodableDropped ==
    /\ [][IsUndecodable' =>
              /\ calls' = <<>>
              /\ UNCHANGED <<registryVars, ws, reconnectDelay, timers, statusEl>>
              /\ DOMAIN socks' = DOMAIN socks
              /\ \A i \in DOMAIN socks : socks'[i].rs = socks[i].rs
              /\ socks'[evt'.inst].rs = "OPEN"]_vars
    /\ []((IsSnapshot /\ socks[evt.inst].dropped) =>
              /\ DOMAIN markers = SnapshotIds
              /\ mapLayers = Range(markers)
              /\ assetCount = Len(evt.payload.value.data))

C9_Witness ==
    /\ IsSnapshot
    /\ socks[evt.inst].dropped
    /\ DOMAIN markers = Ids

\* C10: after the first connect there is always a live instance or a pending
\* timer; a closed connection always has its timer pending; and, timers
\* expiring, every close is followed by a new instance that is connecting.
Closed == ws # 0 /\ socks[ws].rs = "CLOSED"
Connecting == ws # 0 /\ socks[ws].rs = "CONNECTING"

C10_RetriesForever ==
    /\ [](loaded => (Alive(Conn) # {} \/ timers # <<>>))
    /\ [](Closed => timers # <<>>)
    /\ (Closed ~> Connecting)

\* the connection is closed once more after a full run of closes at the ceiling
C10_Witness == Closed /\ Len(streak) = MaxStreak /\ timers = <<CeilDelay>>

\* timers expire: a pending setTimeout callback is run
FairSpec == Spec /\ WF_vars(Timer)

----------------------------------------------------------------------------
\* C11: the bounds contain the position of every marker of the registry; after
\* a snapshot of N records they cover all N positions.
Covers(b, lat, lng) ==
    b.valid /\ b.south <= lat /\ lat <= b.north /\ b.west <= lng /\ lng <= b.east

C11_BoundsCoverAssets ==
    /\ \A i \in DOMAIN markers :
          Covers(bounds, heap[markers[i]].lat, heap[markers[i]].lng)
    /\ IsSnapshot =>
          \A k \in 1..Len(evt.payload.value.data) :
              Covers(bounds, evt.payload.value.data[k].lat, evt.payload.value.data[k].lng)

\* a snapshot of two assets at two different positions has been processed
C11_Witness ==
    /\ IsSnapshot
    /\ DOMAIN markers = Ids
    /\ bounds = [valid |-> TRUE, south |-> 0, west |-> 0, north |-> 1, east |-> 1]

\* C12: a click on zoom-to-fit asks for the view of the bounds padded by 20%
\* exactly when the bounds are valid, does nothing when the registry is empty,
\* and changes neither the registry, the bounds, the count nor the connection.
C12_ZoomFit ==
    [][evt'.kind = "zoomfit" =>
          /\ UNCHANGED <<registryVars, connVars>>
          /\ bounds.valid =>
                /\ Len(calls') = 1
                /\ calls'[1].op = "fitBounds"
                /\ calls'[1].arg.north - calls'[1].arg.south
                      = 14 * (bounds.north - bounds.south)
                /\ calls'[1].arg.east - calls'[1].arg.west
                      = 14 * (bounds.east - bounds.west)
                /\ calls'[1].arg.south + calls'[1].arg.north
                      = 10 * (bounds.south + bounds.north)
                /\ calls'[1].arg.west + calls'[1].arg.east
                      = 10 * (bounds.west + bounds.east)
          /\ ~bounds.valid => calls' = <<>>
          /\ DOMAIN markers = {} => calls' = <<>>]_vars

\* the view of a rectangle one unit wide and high was asked for: 1.4 units each way
C12_Witness ==
    /\ evt.kind = "zoomfit"
    /\ Len(calls) = 1
    /\ calls[1].op = "fitBounds"
    /\ calls[1].arg = [south |-> 0 - 2, west |-> 0 - 2, north |-> 12, east |-> 12]

\* C13: a snapshot writes the asset count once, and the count written is the
\* number of entries the registry holds after the snapshot.
C13_CountIsRegistrySize ==
    IsSnapshot =>
        /\ Cardinality(CallsOf("setCount")) = 1
        /\ assetCount = Cardinality(DOMAIN markers)

\* C14: an asset_update for an id of the registry updates its marker in place
\* (no marker created, same entries); one for a new id adds exactly that entry
\* with one new marker; either way one upsert is made and the entries of the
\* other ids are as before.
C14_UpdateInPlace ==
    [][IsUpdate' =>
          LET a == evt'.payload.value.data[1] IN
          /\ a.id \in DOMAIN markers =>
                /\ markers' = markers
                /\ mapLayers' = mapLayers
                /\ DOMAIN heap' = DOMAIN heap
                /\ CallsOf("addTo")' = {}
                /\ Cardinality(CallsOf("setLatLng")') = 1
          /\ a.id \notin DOMAIN markers =>
                /\ DOMAIN markers' = DOMAIN markers \cup {a.id}
                /\ markers'[a.id] \notin DOMAIN heap
                /\ mapLayers' = mapLayers \cup {markers'[a.id]}
                /\ Cardinality(CallsOf("addTo")') = 1
                /\ CallsOf("setLatLng")' = {}
          /\ \A j \in DOMAIN markers \ {a.id} :
                /\ markers'[j] = markers[j]
                /\ heap'[markers[j]] = heap[markers[j]]]_vars

\* the marker of one of two entries was updated in place
C14_Witness ==
    /\ IsUpdate
    /\ DOMAIN markers = Ids
    /\ Cardinality(CallsOf("setLatLng")) = 1
    /\ heap[markers[evt.payload.value.data[1].id]].popup = Popup(evt.payload.value.data[1])

\* C15: while the registry is not empty the bounds are the smallest rectangle
\* that covers the positions its markers have now; stated for the states an
\* asset_update leaves, the case of an update that moves an asset.
Lats == { heap[markers[i]].lat : i \in DOMAIN markers }
Lngs == { heap[markers[i]].lng : i \in DOMAIN markers }

C15_BoundsMinimal ==
    (IsUpdate /\ DOMAIN markers # {}) =>
        /\ bounds.valid
        /\ bounds.south \in Lats /\ \A x \in Lats : bounds.south <= x
        /\ bounds.north \in Lats /\ \A x \in Lats : x <= bounds.north
        /\ bounds.west \in Lngs /\ \A x \in Lngs : bounds.west <= x
        /\ bounds.east \in Lngs /\ \A x \in Lngs : x <= bounds.east

\* C16: the bounds are valid exactly when the registry is not empty.
C16_ValidIffNonEmpty == bounds.valid <=> DOMAIN markers # {}

\* an empty snapshot emptied a registry of two entries, after a reconnect
C16_Witness ==
    /\ IsSnapshot
    /\ evt.payload.value.data = <<>>
    /\ Cardinality(CallsOf("remove")) = 2
    /\ ~bounds.valid
    /\ socks[evt.inst].atCeil

\* C17: only a snapshot removes entries. The connection events (open, close,
\* error, a failed connection, the reconnect timer) leave registry, markers on
\* the map, bounds and shown count as they are, and a step that is not a
\* snapshot keeps every entry with its marker on the map.
ConnectionEvents == {"open", "close", "error", "fail", "timer"}

C17_OnlySnapshotRemoves ==
    [][/\ evt'.kind \in ConnectionEvents => UNCHANGED registryVars
       /\ ~IsSnapshot' =>
             /\ \A j \in DOMAIN markers :
                   j \in DOMAIN markers' /\ markers'[j] = markers[j]
             /\ mapLayers \subseteq mapLayers']_vars

\* both assets are still known when the timer reconnects after a disconnect
C17_Witness ==
    /\ evt.kind = "timer"
    /\ DOMAIN markers = Ids
    /\ assetCount = 2
    /\ bounds.valid

\* C18: with connectWS called by initMap and by the timer only, at most one
\* instance is not closed, at most one timer is pending, never both, and a timer
\* expiry creates a new instance in its initial state and lets go of the closed one.
C18_OneConnection ==
    /\ [](/\ Cardinality(Alive(Conn)) <= 1
          /\ Len(timers) <= 1
          /\ ~(Alive(Conn) # {} /\ timers # <<>>))
    /\ [][evt'.kind = "timer" =>
             /\ ws' \notin DOMAIN socks
             /\ ws \notin DOMAIN socks'
             /\ socks'[ws'] = NewSockState(reconnectDelay)
             /\ Alive(Conn)' = {ws'}
             /\ timers' = <<>>]_vars

\* the third instance has been created by the second timer expiry
C18_Witness ==
    /\ evt.kind = "timer"
    /\ Alive(Conn) = {ws}
    /\ socks[ws].rs = "CONNECTING"
    /\ timers = <<>>
    /\ Len(streak) >= 2

\* C19: a snapshot with a record that upsertMarker cannot apply leaves
\* registry, markers on the map, bounds and shown count as before the message.
C19_SnapshotAtomic ==
    [][(/\ IsSnapshot'
        /\ \E k \in DOMAIN evt'.payload.value.data :
              ~CanFormat(evt'.payload.value.data[k]))
          => UNCHANGED registryVars]_vars

\* C20: the shown count is written by a snapshot only, with the number of its
\* records; every other step (asset_update, unknown type, undecodable text,
\* connection events) leaves it and calls for no write of it.
C20_CountOnlyOnSnapshot ==
    [][/\ ~IsSnapshot' => assetCount' = assetCount /\ CallsOf("setCount")' = {}
       /\ IsSnapshot' => assetCount' = Len(evt'.payload.value.data)]_vars

\* an asset_update added a second entry and the count still says 1
C20_Witness ==
    /\ IsUpdate
    /\ Cardinality(CallsOf("addTo")) = 1
    /\ DOMAIN markers = Ids
    /\ assetCount = 1

====
